---- MODULE Spec2Model ----
(***************************************************************************)
(* Model of src/bitcointalk.py (UltimateBitcointalkAnalyzer): the scorer,  *)
(* the link classifier, the retrying fetcher, the classification client,   *)
(* the SQLite store and the section scan.                                  *)
(*                                                                         *)
(* Texts are sequences of one-character strings, so that the regular       *)
(* expressions and the float parser of the source are computed character   *)
(* by character.  Floating point values are kept exactly (see Dbl below).  *)
(***************************************************************************)
EXTENDS Integers, Sequences, FiniteSets, TLC

\* ------------------------------------------------------------------------
\* Bounds of the model (not program constants)
\* ------------------------------------------------------------------------
MaxTopic == 2
MaxScans == 2
MaxPages == 2
MaxForced == 1
MaxFetchRetries == 4
MaxLinks == 2
MaxUrls == 3

\* ------------------------------------------------------------------------
\* Characters
\* ------------------------------------------------------------------------
LowerLetters ==
  {"a","b","c","d","e","f","g","h","i","j","k","l","m",
   "n","o","p","q","r","s","t","u","v","w","x","y","z"}

UpperLetters ==
  {"A","B","C","D","E","F","G","H","I","J","K","L","M",
   "N","O","P","Q","R","S","T","U","V","W","X","Y","Z"}

Digits == {"0","1","2","3","4","5","6","7","8","9"}

Letters == LowerLetters \cup UpperLetters

LowerOf ==
  [c \in UpperLetters |->
     CASE c = "A" -> "a" [] c = "B" -> "b" [] c = "C" -> "c" [] c = "D" -> "d"
       [] c = "E" -> "e" [] c = "F" -> "f" [] c = "G" -> "g" [] c = "H" -> "h"
       [] c = "I" -> "i" [] c = "J" -> "j" [] c = "K" -> "k" [] c = "L" -> "l"
       [] c = "M" -> "m" [] c = "N" -> "n" [] c = "O" -> "o" [] c = "P" -> "p"
       [] c = "Q" -> "q" [] c = "R" -> "r" [] c = "S" -> "s" [] c = "T" -> "t"
       [] c = "U" -> "u" [] c = "V" -> "v" [] c = "W" -> "w" [] c = "X" -> "x"
       [] c = "Y" -> "y" [] c = "Z" -> "z"]

\* re.IGNORECASE: characters are compared after lowering
Lower(c) == IF c \in UpperLetters THEN LowerOf[c] ELSE c

DigitVal(c) ==
  CASE c = "0" -> 0 [] c = "1" -> 1 [] c = "2" -> 2 [] c = "3" -> 3
    [] c = "4" -> 4 [] c = "5" -> 5 [] c = "6" -> 6 [] c = "7" -> 7
    [] c = "8" -> 8 [] c = "9" -> 9

\* `lit` (lower case) occurs in `text` at position i, ignoring case
MatchAt(text, i, lit) ==
  /\ i >= 1
  /\ i + Len(lit) - 1 <= Len(text)
  /\ \A k \in 1..Len(lit) : Lower(text[i + k - 1]) = lit[k]

\* the same, case sensitive (str.__contains__, str.replace)
Contains(text, c) == \E k \in 1..Len(text) : text[k] = c

Remove(text, c) == SelectSeq(text, LAMBDA x : x # c)

\* ------------------------------------------------------------------------
\* IEEE-754 double arithmetic of calculate_final_score, kept exactly.
\*
\* Every double that occurs there is a multiple of 2^-54 below 128.  It is
\* written x = a/20 + e*u with u = 2^-54/20 and integers a, e: a/20 is the
\* value in exact arithmetic and e*u the accumulated rounding error.  The
\* weights are 0.35 = 7/20 - 8u, 0.30 = 6/20 - 4u and 0.25 = 5/20.
\* ------------------------------------------------------------------------
Dbl(a, e) == [a |-> a, e |-> e]

RECURSIVE Pow2(_)
Pow2(k) == IF k = 0 THEN 1 ELSE 2 * Pow2(k - 1)

RECURSIVE Pow2Mod(_, _)
Pow2Mod(k, m) == IF k = 0 THEN 1 % m ELSE (2 * Pow2Mod(k - 1, m)) % m

DblSign(x) ==
  IF x.a > 0 THEN 1 ELSE IF x.a < 0 THEN -1
  ELSE IF x.e > 0 THEN 1 ELSE IF x.e < 0 THEN -1 ELSE 0

DblNeg(x) == Dbl(-x.a, -x.e)

\* x > 0: x >= 2^E
DblAtLeastPow2(x, E) ==
  \/ 4 * x.a > 20 * Pow2(E + 2)
  \/ 4 * x.a = 20 * Pow2(E + 2) /\ x.e >= 0

\* x >= 1/4: the binary exponent floor(log2 x), in -2..6
DblExponent(x) == CHOOSE E \in -2..6 :
  /\ DblAtLeastPow2(x, E)
  /\ E < 6 => ~DblAtLeastPow2(x, E + 1)

\* round a positive real a/20 + e*u to the nearest double, ties to even
DblRoundPos(x) ==
  IF ~DblAtLeastPow2(x, -2) THEN x   \* below 1/4 a multiple of 2^-54 is exact
  ELSE
    LET E    == DblExponent(x)
        U    == 20 * Pow2(E + 2)                     \* one ulp, in units u
        r    == Pow2(E + 2) * ((x.a * Pow2Mod(52 - E, 40)) % 40)
        rho2 == (r + x.e) % (2 * U)
        rho  == rho2 % U
        odd  == rho2 >= U
        d    == IF 2 * rho < U THEN -rho
                ELSE IF 2 * rho > U THEN U - rho
                ELSE IF odd THEN U - rho ELSE -rho
    IN Dbl(x.a, x.e + d)

DblRound(x) ==
  IF DblSign(x) = 0 THEN x
  ELSE IF DblSign(x) > 0 THEN DblRoundPos(x)
  ELSE DblNeg(DblRoundPos(DblNeg(x)))

\* int * float, with the weight k/20 + ek*u
DblMulInt(i, k, ek) == DblRound(Dbl(i * k, i * ek))

DblAdd(x, y) == DblRound(Dbl(x.a + y.a, x.e + y.e))

\* float + int
DblAddInt(x, n) == DblRound(Dbl(x.a + 20 * n, x.e))

TruncPos(x) ==
  IF x.a % 20 = 0 /\ x.e < 0 THEN (x.a \div 20) - 1 ELSE x.a \div 20

\* int(x): truncation toward zero
DblToInt(x) ==
  IF DblSign(x) = 0 THEN 0
  ELSE IF DblSign(x) > 0 THEN TruncPos(x)
  ELSE -TruncPos(DblNeg(x))

Max(a, b) == IF a >= b THEN a ELSE b

Min(a, b) == IF a <= b THEN a ELSE b

\* ------------------------------------------------------------------------
\* float(str): optional surrounding blanks, optional sign, decimal digits
\* with at most one point and at least one digit.  (Exponents, "inf", "nan"
\* and digit separators do not occur in the strings of this model.)
\* The value is num/den, negative when neg.
\* ------------------------------------------------------------------------
RECURSIVE StripLeft(_)
StripLeft(s) == IF s # <<>> /\ Head(s) = " " THEN StripLeft(Tail(s)) ELSE s

RECURSIVE StripRight(_)
StripRight(s) ==
  IF s # <<>> /\ s[Len(s)] = " " THEN StripRight(SubSeq(s, 1, Len(s) - 1)) ELSE s

RECURSIVE DigitsVal(_)
DigitsVal(s) ==
  IF s = <<>> THEN 0
  ELSE 10 * DigitsVal(SubSeq(s, 1, Len(s) - 1)) + DigitVal(s[Len(s)])

RECURSIVE Pow10(_)
Pow10(k) == IF k = 0 THEN 1 ELSE 10 * Pow10(k - 1)

ParseFloat(str) ==
  LET s0    == StripRight(StripLeft(str))
      neg   == s0 # <<>> /\ Head(s0) = "-"
      s     == IF s0 # <<>> /\ Head(s0) \in {"-", "+"} THEN Tail(s0) ELSE s0
      dots  == {k \in 1..Len(s) : s[k] = "."}
      dot   == IF dots = {} THEN Len(s) + 1 ELSE CHOOSE k \in dots : TRUE
      ip    == SubSeq(s, 1, dot - 1)
      fp    == SubSeq(s, dot + 1, Len(s))
      valid == /\ Cardinality(dots) <= 1
               /\ \A k \in 1..Len(s) : s[k] \in Digits \cup {"."}
               /\ Len(ip) + Len(fp) >= 1
  IN IF valid
     THEN [ok |-> TRUE, neg |-> neg,
           num |-> DigitsVal(ip \o fp), den |-> Pow10(Len(fp))]
     ELSE [ok |-> FALSE, neg |-> FALSE, num |-> 0, den |-> 1]

\* premine_pct > n
FloatGreater(f, n) == ~f.neg /\ f.num > n * f.den

\* ------------------------------------------------------------------------
\* Classification results (the dict returned by analyze_technical_depth):
\* a function from the keys that are present to their values.  Scores are
\* integers; premine_analysis is a JSON value: a string [k |-> "str", s],
\* a number [k |-> "num", n] or null [k |-> "null"].
\* ------------------------------------------------------------------------
Get(analysis, key, default) ==
  IF key \in DOMAIN analysis THEN analysis[key] ELSE default

Str(s) == [k |-> "str", s |-> s]

Num(n) == [k |-> "num", n |-> n]

Null == [k |-> "null"]

\* ------------------------------------------------------------------------
\* calculate_final_score
\* ------------------------------------------------------------------------
\* the thresholds read as "at least" instead of "more than"
PreminePenaltyAtLeast(premine_str) ==
  IF Contains(premine_str, "%")
  THEN LET premine_pct == ParseFloat(Remove(premine_str, "%"))
       IN IF ~premine_pct.ok \/ premine_pct.neg THEN 0
          ELSE IF premine_pct.num >= 20 * premine_pct.den THEN -25
          ELSE IF premine_pct.num >= 10 * premine_pct.den THEN -15
          ELSE IF premine_pct.num >= 5 * premine_pct.den THEN -5
          ELSE 0
  ELSE 0

\* lines 273-280: the thresholds on the parsed percentage
PenaltyOf(premine_pct) ==
  IF ~premine_pct.ok THEN 0                    \* except: pass
  ELSE IF FloatGreater(premine_pct, 20) THEN -25
  ELSE IF FloatGreater(premine_pct, 10) THEN -15
  ELSE IF FloatGreater(premine_pct, 5) THEN -5
  ELSE 0

\* lines 269-280: the malus for a high premine
PreminePenalty(premine_str) ==
  IF Contains(premine_str, "%")
  THEN PenaltyOf(ParseFloat(Remove(premine_str, "%")))
  ELSE 0

\* lines 252-256
base_score(analysis) ==
  DblAdd(DblAdd(DblMulInt(Get(analysis, "innovation_score", 0), 7, -8),
                DblMulInt(Get(analysis, "technical_score", 0), 6, -4)),
         DblMulInt(Get(analysis, "disruptiveness_score", 0), 5, 0))

\* a project of unknown kind taken for a fork
LinkForkBonusesForkDefault(analysis, has_whitepaper, has_github) ==
  (IF has_whitepaper THEN 5 ELSE 0) + (IF has_github THEN 5 ELSE 0)
  + (IF ~Get(analysis, "is_fork", TRUE) THEN 10 ELSE 0)

\* lines 259-266
LinkForkBonuses(analysis, has_whitepaper, has_github) ==
  (IF has_whitepaper THEN 5 ELSE 0) + (IF has_github THEN 5 ELSE 0)
  + (IF ~Get(analysis, "is_fork", FALSE) THEN 10 ELSE 0)

\* rounding to the nearest integer instead of int()
FinalIntRounded(x) == DblToInt(Dbl(x.a + 10, x.e))

\* line 283: int(final_score)
FinalInt(x) == DblToInt(x)

\* The whole function.  '%' in premine_str raises TypeError when the value
\* is not a string (line 270 is outside the try block).
\* lines 259-283 once the malus is known
ScoreWith(analysis, has_whitepaper, has_github, penalty) ==
  [ok |-> TRUE,
   final |->
     Max(0, Min(100, FinalInt(
       DblAddInt(base_score(analysis),
                 LinkForkBonuses(analysis, has_whitepaper, has_github)
                 + penalty)))),
   penalty |-> penalty]

calculate_final_score(analysis, has_whitepaper, has_github) ==
  IF Get(analysis, "premine_analysis", Str(<<"0", "%">>)).k # "str"
  THEN [ok |-> FALSE, final |-> 0, penalty |-> 0]
  ELSE ScoreWith(analysis, has_whitepaper, has_github,
                 PreminePenalty(
                   Get(analysis, "premine_analysis", Str(<<"0", "%">>)).s))

\* premine_analysis strings of the model
PCT0 == <<"0", "%">>
PCT3 == <<"3", "%">>
PCT5_0 == <<"5", ".", "0", "%">>
PCT5_1 == <<"5", ".", "1", "%">>
PCT10_0 == <<"1", "0", ".", "0", "%">>
PCT10_1 == <<"1", "0", ".", "1", "%">>
PCT20_0 == <<"2", "0", ".", "0", "%">>
PCT20_1 == <<"2", "0", ".", "1", "%">>
PCT25 == <<"2", "5", "%">>
PCT_TILDE3 == <<"~", "3", "%">>
PCT_NA == <<"n", "/", "a">>

\* ------------------------------------------------------------------------
\* extract_links
\* ------------------------------------------------------------------------
LIT_HTTP ==
  <<"h","t","t","p",":","/","/">>

LIT_HTTPS ==
  <<"h","t","t","p","s",":","/","/">>

LIT_WWW ==
  <<"w","w","w",".">>

LIT_GITHUB ==
  <<"g","i","t","h","u","b",".","c","o","m","/">>

KW_WHITEPAPER ==
  <<"w","h","i","t","e","p","a","p","e","r">>

KW_WHITE_PAPER ==
  <<"w","h","i","t","e"," ","p","a","p","e","r">>

KW_LITEPAPER ==
  <<"l","i","t","e","p","a","p","e","r">>

KW_TECHNICAL_PAPER ==
  <<"t","e","c","h","n","i","c","a","l"," ","p","a","p","e","r">>

\* [^\s<>"]
UrlChar(c) == c \notin {" ", "\t", "\n", "\r", "<", ">", "\""}

\* [a-zA-Z0-9_-]
WordChar(c) == c \in Letters \cup Digits \cup {"_", "-"}

\* [a-zA-Z0-9.-]
HostChar(c) == c \in Letters \cup Digits \cup {".", "-"}

\* end of the longest run of characters of a class that starts at i
\* (i - 1 when there is none)
InClass(c, class) ==
  CASE class = "url" -> UrlChar(c)
    [] class = "word" -> WordChar(c)
    [] class = "host" -> HostChar(c)

RunEnd(text, i, class) ==
  CHOOSE j \in (i - 1)..Len(text) :
    /\ \A k \in i..j : InClass(text[k], class)
    /\ j = Len(text) \/ ~InClass(text[j + 1], class)

\* position after "http://" or "https://" at i, 0 when neither is there
AfterScheme(text, i) ==
  IF MatchAt(text, i, LIT_HTTPS) THEN i + Len(LIT_HTTPS)
  ELSE IF MatchAt(text, i, LIT_HTTP) THEN i + Len(LIT_HTTP)
  ELSE 0

\* url_pattern (line 170) matched at position i: the end of the match, or 0
UrlMatchEnd(text, i) ==
  LET p == IF AfterScheme(text, i) # 0 THEN AfterScheme(text, i)
           ELSE IF MatchAt(text, i, LIT_WWW) THEN i + Len(LIT_WWW)
           ELSE 0
  IN IF p = 0 THEN 0
     ELSE IF RunEnd(text, p, "url") >= p THEN RunEnd(text, p, "url")
     ELSE 0

\* re.findall(url_pattern, text, re.IGNORECASE): the non-overlapping matches
\* from left to right
RECURSIVE FindUrls(_, _)
FindUrls(text, i) ==
  IF i > Len(text) THEN <<>>
  ELSE IF UrlMatchEnd(text, i) # 0
       THEN <<SubSeq(text, i, UrlMatchEnd(text, i))>>
            \o FindUrls(text, UrlMatchEnd(text, i) + 1)
       ELSE FindUrls(text, i + 1)

\* re.search(patterns['github'], url, re.IGNORECASE)
MatchesGithub(url) ==
  \E i \in 1..Len(url) :
    /\ MatchAt(url, i, LIT_GITHUB)
    /\ LET p == i + Len(LIT_GITHUB)
           j == RunEnd(url, p, "word")
       IN /\ j >= p
          /\ j + 2 <= Len(url)
          /\ url[j + 1] = "/"
          /\ WordChar(url[j + 2])

\* re.search(patterns['whitepaper'], url, re.IGNORECASE)
MatchesWhitepaper(url) ==
  \E i \in 1..Len(url) :
    \E kw \in {KW_WHITEPAPER, KW_WHITE_PAPER, KW_LITEPAPER, KW_TECHNICAL_PAPER} :
      MatchAt(url, i, kw)

\* re.search(patterns['website'], url, re.IGNORECASE)
MatchesWebsite(url) ==
  \E i \in 1..Len(url) :
    /\ AfterScheme(url, i) # 0
    /\ LET p == AfterScheme(url, i)
           j == RunEnd(url, p, "host")
       IN \E k \in (p + 1)..j :
            /\ url[k] = "."
            /\ k + 2 <= Len(url)
            /\ url[k + 1] \in Letters
            /\ url[k + 2] \in Letters

\* a variant that looks at the whitepaper keyword first
LinkCategoryWhitepaperFirst(url) ==
  IF MatchesWhitepaper(url) THEN "whitepaper"
  ELSE IF MatchesGithub(url) THEN "github"
  ELSE IF MatchesWebsite(url) THEN "website"
  ELSE "other"

\* lines 173-181: the if/elif chain
LinkCategory(url) ==
  IF MatchesGithub(url) THEN "github"
  ELSE IF MatchesWhitepaper(url) THEN "whitepaper"
  ELSE IF MatchesWebsite(url) THEN "website"
  ELSE "other"

\* a variant that looks for the whitepaper keyword in the whole text
FoundUrlsKeywordInText(text) ==
  IF MatchesWhitepaper(text) THEN <<KW_WHITEPAPER>> \o FindUrls(text, 1)
  ELSE FindUrls(text, 1)

\* line 171
FoundUrls(text) == FindUrls(text, 1)

extract_links(text) ==
  LET found_urls == FoundUrls(text)
  IN [c \in {"github", "whitepaper", "website", "other"} |->
        SelectSeq(found_urls, LAMBDA url : LinkCategory(url) = c)]

\* post bodies of the model
BODY_E2E ==
  <<"O","f","f","i","c","i","a","l"," ","w","h","i","t","e","p","a","p","e",
    "r",":"," ","h","t","t","p","s",":","/","/","e","x","a","m","p","l","e",
    ".","o","r","g","/","w","p",".","p","d","f",","," ","g","i","t","h","u",
    "b",".","c","o","m","/","f","o","o","/","b","a","r",","," ","p","r","e",
    "m","i","n","e"," ","3","%">>

BODY_LINKS ==
  <<"s","e","e"," ","h","t","t","p","s",":","/","/","g","i","t","h","u","b",
    ".","c","o","m","/","f","o","o","/","b","a","r"," ","a","n","d"," ","h",
    "t","t","p",":","/","/","x",".","i","o","/","w","h","i","t","e","p","a",
    "p","e","r",".","p","d","f">>

BODY_GITHUB ==
  <<"c","o","d","e",":"," ","w","w","w",".","g","i","t","h","u","b",".","c",
    "o","m","/","a","/","b">>

NoHtml == [k |-> "none"]

NoProject == [k |-> "none"]

\* a document without title, author or post element
SOME_PAGE == [k |-> "page", title |-> <<>>, has_title |-> FALSE,
              author |-> "", has_author |-> FALSE,
              post |-> <<>>, has_post |-> FALSE]

\* the empty document
EMPTY_PAGE == [k |-> "empty"]

\* ------------------------------------------------------------------------
\* fetch_with_retry
\*
\* An attempt ends in one of five ways: "ok" (status 200 and the body is
\* read), "bodyfail" (status 200, then response.text() raises inside the try
\* block), "s429", "status" (any other status) and "exc" (session.get
\* raises).  resps[k] is the outcome of the k-th request and body the page
\* the server holds.  The result is the returned value and the trace of
\* requests and sleeps in the order in which they happen.
\* ------------------------------------------------------------------------
DefaultRetries == 3

OutcomeKinds == {"ok", "bodyfail", "s429", "status", "exc"}

\* the outcomes drawn inside a scan, where only the result and the number of
\* requests of a fetch are observed
ScanOutcomeKinds == {"ok", "status"}

RECURSIVE Slept(_)
Slept(trace) ==
  IF trace = <<>> THEN 0
  ELSE (IF Head(trace).e = "sleep" THEN Head(trace).s ELSE 0) + Slept(Tail(trace))

EvGet == [e |-> "get"]

EvSleep(n) == [e |-> "sleep", s |-> n]

Html(body) == [k |-> "html", body |-> body]

\* a backoff that does not grow
BackoffWaitFlat(attempt) == 1

\* line 143
BackoffWait(attempt) == Pow2(attempt)

\* a loop that does not wait after a 429 received at the last attempt
RECURSIVE FetchFromNoLastWait(_, _, _, _)
FetchFromNoLastWait(resps, body, retries, attempt) ==
  IF attempt >= retries
  THEN [result |-> NoHtml, trace |-> <<>>]
  ELSE
    LET r    == resps[attempt + 1]
        rest == FetchFromNoLastWait(resps, body, retries, attempt + 1)
    IN CASE r = "ok" ->
              [result |-> Html(body), trace |-> <<EvGet>>]
         [] r = "s429" ->
              [result |-> rest.result,
               trace  |-> (IF attempt + 1 < retries
                           THEN <<EvGet, EvSleep(BackoffWait(attempt))>>
                           ELSE <<EvGet>>) \o rest.trace]
         [] r = "status" ->
              [result |-> rest.result, trace |-> <<EvGet>> \o rest.trace]
         [] r \in {"exc", "bodyfail"} ->
              [result |-> rest.result,
               trace  |-> <<EvGet, EvSleep(1)>> \o rest.trace]

RECURSIVE FetchFrom(_, _, _, _)
FetchFrom(resps, body, retries, attempt) ==
  IF attempt >= retries
  THEN [result |-> NoHtml, trace |-> <<>>]                     \* return None
  ELSE
    LET r    == resps[attempt + 1]
        rest == FetchFrom(resps, body, retries, attempt + 1)
    IN CASE r = "ok" ->
              [result |-> Html(body), trace |-> <<EvGet>>]
         [] r = "s429" ->
              [result |-> rest.result,
               trace  |-> <<EvGet, EvSleep(BackoffWait(attempt))>> \o rest.trace]
         [] r = "status" ->
              [result |-> rest.result, trace |-> <<EvGet>> \o rest.trace]
         [] r \in {"exc", "bodyfail"} ->
              [result |-> rest.result,
               trace  |-> <<EvGet, EvSleep(1)>> \o rest.trace]

\* a loop that stops one attempt late
fetch_with_retryOneMore(resps, body, retries) ==
  FetchFrom(resps \o <<"status">>, body, retries + 1, 0)

\* a loop that goes on after a 200
fetch_with_retryNoReturn(resps, body, retries) ==
  LET first == FetchFrom(resps, body, retries, 0)
      n     == Cardinality({k \in 1..Len(first.trace) : first.trace[k] = EvGet})
  IN IF first.result # NoHtml /\ n < retries
     THEN [result |-> first.result,
           trace  |-> first.trace \o FetchFrom(resps, body, retries, n).trace]
     ELSE first

fetch_with_retry(resps, body, retries) == FetchFrom(resps, body, retries, 0)

Requests(trace) == Cardinality({k \in 1..Len(trace) : trace[k] = EvGet})

\* `if not html`
Falsy(h) == h.k = "none" \/ h.body.k = "empty"

\* ------------------------------------------------------------------------
\* analyze_technical_depth
\*
\* The answer of the classification service is one of
\*   [k |-> "exception"]   ollama.chat raises,
\*   [k |-> "nojson"]      the text holds no {...},
\*   [k |-> "badjson"]     json.loads raises,
\*   [k |-> "json", obj]   obj is the decoded object.
\* JSON values are tagged: Num(n), Flt(num, den), Str(chars), Null,
\* List(seq of strings); is_fork, when present, is a JSON boolean.
\* ------------------------------------------------------------------------
Flt(num, den) == [k |-> "flt", num |-> num, den |-> den]

List(l) == [k |-> "list", l |-> l]

\* int(str): optional blanks and sign, then decimal digits only
ParseInt(str) ==
  LET s0    == StripRight(StripLeft(str))
      neg   == s0 # <<>> /\ Head(s0) = "-"
      s     == IF s0 # <<>> /\ Head(s0) \in {"-", "+"} THEN Tail(s0) ELSE s0
      valid == s # <<>> /\ \A k \in 1..Len(s) : s[k] \in Digits
  IN IF valid
     THEN [ok |-> TRUE, n |-> IF neg THEN -DigitsVal(s) ELSE DigitsVal(s)]
     ELSE [ok |-> FALSE, n |-> 0]

\* int(value) of line 234: ok is FALSE when it raises
IntOf(v) ==
  CASE v.k = "num" -> [ok |-> TRUE, n |-> v.n]
    [] v.k = "flt" -> [ok |-> TRUE,
                       n |-> IF v.num >= 0 THEN v.num \div v.den
                             ELSE -((-v.num) \div v.den)]
    [] v.k = "str" -> ParseInt(v.s)
    [] OTHER -> [ok |-> FALSE, n |-> 0]

ScoreKeys == {"innovation_score", "disruptiveness_score", "technical_score"}

\* a validation that drops the upper bound
CleanScoreNoCap(v) == Max(0, IntOf(v).n)

\* line 234
CleanScore(v) == Max(0, Min(100, IntOf(v).n))

EmptyAnalysis == [k \in {} |-> 0]

analyze_technical_depth(response) ==
  IF response.k # "json" THEN EmptyAnalysis
  ELSE IF \E key \in ScoreKeys \cap DOMAIN response.obj :
            ~IntOf(response.obj[key]).ok
       THEN EmptyAnalysis                     \* except Exception: return {}
  ELSE [key \in DOMAIN response.obj |->
          IF key \in ScoreKeys THEN CleanScore(response.obj[key])
          ELSE response.obj[key]]

\* ------------------------------------------------------------------------
\* process_announcement up to the CryptoProject object (lines 296-344)
\* ------------------------------------------------------------------------
TITLE_UNKNOWN == "Titre inconnu"

AUTHOR_UNKNOWN == "Auteur inconnu"

ContentLimit == 1000

ELLIPSIS == <<".", ".", ".">>

\* line 326
Excerpt(content) ==
  IF Len(content) > ContentLimit
  THEN SubSeq(content, 1, ContentLimit) \o ELLIPSIS ELSE content

FirstOrEmpty(l) == IF l # <<>> THEN l[1] ELSE <<>>

\* line 334 raises when the value is not a string or float() rejects it
PremineRaises(analysis) ==
  LET premine == Get(analysis, "premine_analysis", Str(PCT0))
  IN \/ premine.k # "str"
     \/ Contains(premine.s, "%") /\ ~ParseFloat(Remove(premine.s, "%")).ok

\* the float kept in the project
FloatValue(f) == [neg |-> f.neg, num |-> f.num, den |-> f.den]

premine_percentage(analysis) ==
  LET premine == Get(analysis, "premine_analysis", Str(PCT0))
  IN IF Contains(premine.s, "%")
     THEN FloatValue(ParseFloat(Remove(premine.s, "%")))
     ELSE [neg |-> FALSE, num |-> 0, den |-> 1]

\* extract_links on the post texts of the model, computed once
LinksOf == [text \in {<<>>, BODY_E2E, BODY_LINKS, BODY_GITHUB} |->
              extract_links(text)]

\* page is the parsed document: title holds the segments of the <title>
\* text between the ' | ' separators (lines 298-308)
PostTitle(page) == IF page.has_title THEN page.title[1] ELSE TITLE_UNKNOWN

PostAuthor(page) == IF page.has_author THEN page.author ELSE AUTHOR_UNKNOWN

PostContent(page) == IF page.has_post THEN page.post ELSE <<>>

\* lines 321-344: the CryptoProject object, from the links, the
\* classification and the score
ProjectOf(topic_id, page, links, technical_analysis, score, t1, t2) ==
  IF ~score.ok \/ PremineRaises(technical_analysis)
  THEN [raised |-> TRUE]
  ELSE [raised |-> FALSE,
        project |->
          [k |-> "project",
           topic_id |-> topic_id,
           title |-> PostTitle(page),
           author |-> PostAuthor(page),
           content |-> Excerpt(PostContent(page)),
           post_date |-> t1,
           github_link |-> FirstOrEmpty(links["github"]),
           whitepaper_link |-> FirstOrEmpty(links["whitepaper"]),
           website_link |-> FirstOrEmpty(links["website"]),
           technical_score |-> Get(technical_analysis, "technical_score", 0),
           innovation_score |-> Get(technical_analysis, "innovation_score", 0),
           disruptiveness_score |->
             Get(technical_analysis, "disruptiveness_score", 0),
           credibility_score |-> 0,
           risk_score |-> 0,
           premine_percentage |-> premine_percentage(technical_analysis),
           is_fork |-> Get(technical_analysis, "is_fork", FALSE),
           fork_base |-> Get(technical_analysis, "fork_base", Str(<<>>)),
           mining_algorithm |->
             Get(technical_analysis, "mining_algorithm", Str(<<>>)),
           consensus_mechanism |->
             Get(technical_analysis, "consensus_mechanism", Str(<<>>)),
           unique_features |->
             Get(technical_analysis, "unique_technical_features", List(<<>>)),
           red_flags |->
             Get(technical_analysis, "technical_red_flags", List(<<>>)),
           strengths |->
             Get(technical_analysis, "technical_strengths", List(<<>>)),
           final_score |-> score.final,
           analysis_date |-> t2]]

\* lines 316-319: the score of the classified post
Scored(topic_id, page, links, technical_analysis, t1, t2) ==
  ProjectOf(topic_id, page, links, technical_analysis,
            calculate_final_score(technical_analysis,
                                  Len(links["whitepaper"]) > 0,
                                  Len(links["github"]) > 0),
            t1, t2)

BuildProject(topic_id, page, response, t1, t2) ==
  Scored(topic_id, page, LinksOf[PostContent(page)],
         analyze_technical_depth(response), t1, t2)

\* ------------------------------------------------------------------------
\* The store: save_project and is_project_analyzed
\* ------------------------------------------------------------------------
\* json.dumps of a list of strings or of None, as a sequence of tokens
RECURSIVE DumpItems(_)
DumpItems(l) ==
  IF l = <<>> THEN <<>>
  ELSE IF Len(l) = 1 THEN <<"\"", l[1], "\"">>
  ELSE <<"\"", l[1], "\"", ", ">> \o DumpItems(Tail(l))

json_dumps(v) ==
  IF v.k = "list" THEN <<"[">> \o DumpItems(v.l) \o <<"]">> ELSE <<"null">>

\* sqlite3 binds None, int, float, str and bytes only
Bindable(v) == v.k \in {"str", "null", "num", "flt"}

PromisingThreshold == 75

\* a threshold that leaves the boundary out
IsPromisingStrict(final_score) == final_score > PromisingThreshold

\* line 380
IsPromising(final_score) == final_score >= PromisingThreshold

\* the row written by the INSERT OR REPLACE of lines 363-381
Row(project, rowid, t) ==
  [id |-> rowid,
   topic_id |-> project.topic_id,
   title |-> project.title,
   author |-> project.author,
   post_date |-> project.post_date,
   content |-> project.content,
   technical_score |-> project.technical_score,
   innovation_score |-> project.innovation_score,
   disruptiveness_score |-> project.disruptiveness_score,
   credibility_score |-> project.credibility_score,
   risk_score |-> project.risk_score,
   premine_percentage |-> project.premine_percentage,
   is_fork |-> project.is_fork,
   fork_base |-> project.fork_base,
   mining_algorithm |-> project.mining_algorithm,
   consensus_mechanism |-> project.consensus_mechanism,
   unique_features |-> json_dumps(project.unique_features),
   red_flags |-> json_dumps(project.red_flags),
   strengths |-> json_dumps(project.strengths),
   final_score |-> project.final_score,
   github_link |-> project.github_link,
   whitepaper_link |-> project.whitepaper_link,
   website_link |-> project.website_link,
   analysis_date |-> project.analysis_date,
   last_updated |-> t,
   is_promising |-> IsPromising(project.final_score)]

\* a plain INSERT into a table without the UNIQUE constraint
InsertKeepingOld(rows, row) == rows \cup {row}

\* INSERT OR REPLACE with topic_id UNIQUE (lines 79, 364): the conflicting
\* row is deleted before the new one is inserted
InsertOrReplace(rows, row) ==
  {r \in rows : r.topic_id # row.topic_id} \cup {row}

\* the execute raises when a parameter cannot be bound
SaveRaises(project) ==
  \/ ~Bindable(project.fork_base)
  \/ ~Bindable(project.mining_algorithm)
  \/ ~Bindable(project.consensus_mechanism)

\* a lookup on the row id instead of the topic id
is_project_analyzedById(rows, topic_id) == \E r \in rows : r.id = topic_id

\* a lookup that never finds the topic
is_project_analyzedNever(rows, topic_id) == FALSE

\* lines 426-433
is_project_analyzed(rows, topic_id) == \E r \in rows : r.topic_id = topic_id

\* ------------------------------------------------------------------------
\* State.  The counters scraped_count and analyzed_count are written and
\* never read; they are left out.
\* ------------------------------------------------------------------------
VARIABLES
  projects,          \* rows of table projects
  analysis_history,  \* rows of table analysis_history, in insertion order
  next_rowid,        \* AUTOINCREMENT counter of table projects
  now,               \* the wall clock read by datetime.now()
  session,           \* self.session: "none", "open" or "closed"
  pc,                \* position of scan_bitcointalk_section
  scans,             \* scans started so far
  pages,             \* argument `pages` of the running scan
  page,              \* loop variable `page`
  topic_links,       \* topic links of the current page not yet visited
  cur,               \* topic_id being processed, 0 when none
  html,              \* result of the last fetch_with_retry of the scan
  step,              \* what the last action of the scan did
  upserts,           \* per topic_id: successful save_project calls of scans
  lastUpsert,        \* per topic_id: argument of the last successful save_project
  forced,            \* direct save_project calls so far
  s_in,              \* arguments of the last calculate_final_score call
  s_out,             \* its result
  f_in,              \* arguments and responses of the last fetch_with_retry call
  f_out,             \* its result
  c_in,              \* answer given to the last analyze_technical_depth call
  c_out,             \* its result
  l_in,              \* argument of the last extract_links call
  l_out              \* its result

vars == <<projects, analysis_history, next_rowid, now, session,
          pc, scans, pages, page, topic_links, cur, html, step, upserts,
          lastUpsert, forced, s_in, s_out, f_in, f_out, c_in, c_out,
          l_in, l_out>>

scanVars == <<session, pc, scans, pages, page, topic_links, cur, html, step>>

storeVars == <<projects, analysis_history, next_rowid, upserts, lastUpsert>>

scoreVars == <<s_in, s_out>>

fetchVars == <<f_in, f_out>>

classVars == <<c_in, c_out>>

linkVars == <<l_in, l_out>>

\* the variables of the calls made on their own
callVars == <<scoreVars, fetchVars, classVars, linkVars>>

TopicIds == 1..MaxTopic

NoStep == [kind |-> "none", id |-> 0, fetched |-> FALSE,
           classified |-> FALSE, saved |-> FALSE,
           answer |-> "none", store_failed |-> FALSE, unavailable |-> FALSE]

Init ==
  /\ projects = {}
  /\ analysis_history = <<>>
  /\ next_rowid = 1
  /\ now = 0
  /\ session = "none"
  /\ pc = "idle"
  /\ scans = 0
  /\ pages = 0
  /\ page = 0
  /\ topic_links = <<>>
  /\ cur = 0
  /\ html = NoHtml
  /\ step = NoStep
  /\ upserts = [t \in TopicIds |-> 0]
  /\ lastUpsert = [t \in TopicIds |-> NoProject]
  /\ forced = 0
  /\ s_in = [called |-> FALSE]
  /\ s_out = [called |-> FALSE]
  /\ f_in = [called |-> FALSE]
  /\ f_out = [called |-> FALSE]
  /\ c_in = [called |-> FALSE]
  /\ c_out = [called |-> FALSE]
  /\ l_in = [called |-> FALSE]
  /\ l_out = [called |-> FALSE]

STR_100 == <<"1", "0", "0">>

STR_HIGH == <<"h", "i", "g", "h">>

\* ------------------------------------------------------------------------
\* The environment of a scan: listing pages, topic pages and answers of the
\* classification service
\* ------------------------------------------------------------------------
RECURSIVE SeqsUpTo(_, _)
SeqsUpTo(S, n) ==
  IF n = 0 THEN {<<>>}
  ELSE SeqsUpTo(S, n - 1)
       \cup {Append(q, x) : q \in {r \in SeqsUpTo(S, n - 1) : Len(r) = n - 1},
                            x \in S}

\* a listing page is given by the topic ids of its links of class "new"
\* whose href matches topic=\d+\.msg\d+ (lines 407-415)
ListingBodies ==
  {[k |-> "listing", links |-> l] : l \in SeqsUpTo(TopicIds, MaxLinks)}
  \cup {EMPTY_PAGE}

PAGE_E2E == [k |-> "page", title |-> <<"NewCoin", "Bitcoin Forum">>,
             has_title |-> TRUE, author |-> "satoshi", has_author |-> TRUE,
             post |-> BODY_E2E, has_post |-> TRUE]

PAGE_LINKS == [k |-> "page", title |-> <<>>,
               has_title |-> FALSE, author |-> "", has_author |-> FALSE,
               post |-> BODY_LINKS, has_post |-> TRUE]

ItemBodies == {PAGE_E2E, PAGE_LINKS, EMPTY_PAGE}

\* the classification of the end-to-end scenario
R_E2E == [k |-> "json", obj |->
  [innovation_score |-> Num(80), technical_score |-> Num(70),
   disruptiveness_score |-> Num(60), is_fork |-> FALSE,
   premine_analysis |-> Str(PCT3)]]

\* out-of-range, textual and fractional scores and a premine with a malus,
\* every field present
R_HIGH == [k |-> "json", obj |->
  [innovation_score |-> Num(150), technical_score |-> Str(STR_100),
   disruptiveness_score |-> Flt(205, 10), is_fork |-> FALSE,
   premine_analysis |-> Str(PCT5_1), fork_base |-> Null,
   mining_algorithm |-> Str(<<"x">>), consensus_mechanism |-> Str(<<"p">>),
   unique_technical_features |-> List(<<"dag", "zk">>),
   technical_red_flags |-> List(<<>>), technical_strengths |-> Null]]

\* a score that int() rejects
R_NONNUM == [k |-> "json", obj |->
  [innovation_score |-> Str(STR_HIGH), technical_score |-> Num(70),
   is_fork |-> TRUE]]

\* premine_analysis is a JSON number
R_PREMINE_NUM == [k |-> "json", obj |->
  [innovation_score |-> Num(80), premine_analysis |-> Num(15)]]

\* premine_analysis holds a '%' but is no number
R_PREMINE_TEXT == [k |-> "json", obj |->
  [innovation_score |-> Num(80), premine_analysis |-> Str(PCT_TILDE3)]]

\* a field that sqlite3 cannot bind
R_UNBINDABLE == [k |-> "json", obj |->
  [innovation_score |-> Num(80), fork_base |-> List(<<"a", "b">>)]]

Responses ==
  {[k |-> "exception"], [k |-> "nojson"], [k |-> "badjson"],
   R_E2E, R_HIGH, R_NONNUM, R_PREMINE_NUM, R_PREMINE_TEXT,
   R_UNBINDABLE}

\* ------------------------------------------------------------------------
\* scan_bitcointalk_section, one action per stretch between two awaits
\* ------------------------------------------------------------------------
Step(kind, id, gets, classified, saved) ==
  [kind |-> kind, id |-> id, fetched |-> gets > 0, classified |-> classified,
   saved |-> saved, answer |-> "none", store_failed |-> FALSE,
   unavailable |-> FALSE]

\* the step of a processed item: the kind of answer the classification
\* service gave, and whether the store refused the save that was tried
Processed(id, answer, saved, store_failed) ==
  [Step("process", id, 0, TRUE, saved)
     EXCEPT !.answer = answer, !.store_failed = store_failed]

\* a caller starts a scan: init_session (line 393)
StartScan(n) ==
  /\ pc = "idle"
  /\ scans < MaxScans
  /\ scans' = scans + 1
  /\ session' = "open"
  /\ pages' = n
  /\ page' = 0
  /\ topic_links' = <<>>
  /\ pc' = "scan"
  /\ step' = Step("start", 0, 0, FALSE, FALSE)
  /\ UNCHANGED <<cur, html, storeVars, callVars, now, forced>>

\* lines 396-411: the next listing page is fetched and its links extracted
ListPage(body, resps) ==
  /\ pc = "scan"
  /\ topic_links = <<>>
  /\ page < pages
  /\ LET f == fetch_with_retry(resps, body, DefaultRetries)
     IN /\ topic_links' = IF Falsy(f.result) THEN <<>> ELSE body.links
        /\ step' = [Step("list", page, Requests(f.trace), FALSE, FALSE)
                       EXCEPT !.unavailable = Falsy(f.result)]
        /\ now' = now + Slept(f.trace)
  /\ page' = page + 1
  /\ UNCHANGED <<session, pc, scans, pages, cur, html, storeVars, callVars,
                 forced>>

\* the pacing sleep placed after the early return of process_announcement:
\* an item whose page is unavailable is not followed by a delay
CheckTopicUnpaced(body, resps) ==
  /\ pc = "scan"
  /\ topic_links # <<>>
  /\ LET topic_id == Head(topic_links)
         f == fetch_with_retry(resps, body, DefaultRetries)
     IN IF is_project_analyzed(projects, topic_id)
        THEN /\ step' = Step("skip", topic_id, 0, FALSE, FALSE)
             /\ UNCHANGED <<pc, cur, html, now>>
        ELSE /\ step' = Step("fetch", topic_id, Requests(f.trace), FALSE, FALSE)
             /\ now' = now + Slept(f.trace)
             /\ cur' = topic_id
             /\ html' = IF Falsy(f.result) THEN NoHtml ELSE f.result
             /\ pc' = IF Falsy(f.result) THEN "scan" ELSE "fetched"
  /\ topic_links' = Tail(topic_links)
  /\ UNCHANGED <<session, scans, pages, page, storeVars, callVars, forced>>

\* lines 414-420 and 288-293: the dedup check of the next topic and, when
\* the topic is not in the store, the fetch of its page
CheckTopic(body, resps) ==
  /\ pc = "scan"
  /\ topic_links # <<>>
  /\ LET topic_id == Head(topic_links)
         f == fetch_with_retry(resps, body, DefaultRetries)
     IN IF is_project_analyzed(projects, topic_id)
        THEN /\ step' = Step("skip", topic_id, 0, FALSE, FALSE)
             /\ UNCHANGED <<pc, cur, html, now>>
        ELSE /\ step' = Step("fetch", topic_id, Requests(f.trace), FALSE, FALSE)
             /\ now' = now + Slept(f.trace)
             /\ cur' = topic_id
             /\ html' = IF Falsy(f.result) THEN NoHtml ELSE f.result
             /\ pc' = IF Falsy(f.result) THEN "pace" ELSE "fetched"
  /\ topic_links' = Tail(topic_links)
  /\ UNCHANGED <<session, scans, pages, page, storeVars, callVars, forced>>

\* BuildProject on the pages and answers of the model, computed once; the
\* two dates are filled in by the caller
Built == [topic_id \in TopicIds, body \in ItemBodies \ {EMPTY_PAGE},
          response \in Responses |->
            BuildProject(topic_id, body, response, 0, 0)]

Dated(project, t1, t2) ==
  [project EXCEPT !.post_date = t1, !.analysis_date = t2]

\* a save whose row stays in the table although the commit raised
SaveProjectPartial(project, t, store_ok, counted) ==
  IF ~SaveRaises(project)
  THEN /\ projects' = InsertOrReplace(projects, Row(project, next_rowid, t))
       /\ next_rowid' = next_rowid + 1
       /\ lastUpsert' = [lastUpsert EXCEPT ![project.topic_id] = project]
       /\ upserts' = IF counted
                     THEN [upserts EXCEPT ![project.topic_id] = @ + 1]
                     ELSE upserts
       /\ UNCHANGED analysis_history
  ELSE UNCHANGED storeVars

\* save_project (lines 357-389) on the store: nothing is written when the
\* execute or the commit raises
SaveProject(project, t, store_ok, counted) ==
  IF store_ok /\ ~SaveRaises(project)
  THEN /\ projects' = InsertOrReplace(projects, Row(project, next_rowid, t))
       /\ next_rowid' = next_rowid + 1
       /\ lastUpsert' = [lastUpsert EXCEPT ![project.topic_id] = project]
       /\ upserts' = IF counted
                     THEN [upserts EXCEPT ![project.topic_id] = @ + 1]
                     ELSE upserts
       /\ UNCHANGED analysis_history
  ELSE UNCHANGED storeVars

\* lines 346-355: the built project is saved; an exception raised on the
\* way is swallowed by the outer except and nothing is written
SaveBuilt(b, answer, store_ok) ==
  IF b.raised
  THEN /\ step' = Processed(cur, answer, FALSE, FALSE)
       /\ UNCHANGED storeVars
  ELSE /\ SaveProject(Dated(b.project, now, now), now, store_ok, TRUE)
       /\ step' = Processed(cur, answer, store_ok /\ ~SaveRaises(b.project),
                            ~store_ok)

\* process_announcement without its try/except: an exception raised while
\* scoring or building the project leaves the scan through the finally
ProcessFetchedUncaught(response, store_ok) ==
  /\ pc = "fetched"
  /\ SaveBuilt(Built[cur, html.body, response], response.k, store_ok)
  /\ html' = NoHtml
  /\ IF Built[cur, html.body, response].raised
     THEN pc' = "idle" /\ session' = "closed"
     ELSE pc' = "pace" /\ session' = session
  /\ UNCHANGED <<scans, pages, page, topic_links, cur, callVars, now, forced>>

\* lines 295-355: extraction, classification, scoring and save of the
\* fetched page; the clock counts whole seconds, so the three readings of
\* datetime.now() agree
ProcessFetched(response, store_ok) ==
  /\ pc = "fetched"
  /\ SaveBuilt(Built[cur, html.body, response], response.k, store_ok)
  /\ html' = NoHtml
  /\ pc' = "pace"
  /\ UNCHANGED <<session, scans, pages, page, topic_links, cur, callVars,
                 now, forced>>

\* line 421: asyncio.sleep(1)
Pace ==
  /\ pc = "pace"
  /\ now' = now + 1
  /\ cur' = 0
  /\ pc' = "scan"
  /\ step' = Step("pace", cur, 0, FALSE, FALSE)
  /\ UNCHANGED <<session, scans, pages, page, topic_links, html, storeVars,
                 callVars, forced>>

\* lines 423-424: the loop is over, close_session
FinishScan ==
  /\ pc = "scan"
  /\ topic_links = <<>>
  /\ page = pages
  /\ session' = "closed"
  /\ pc' = "idle"
  /\ step' = Step("done", 0, 0, FALSE, FALSE)
  /\ UNCHANGED <<scans, pages, page, topic_links, cur, html, storeVars,
                 callVars, now, forced>>

Next ==
  \/ \E n \in 0..MaxPages : StartScan(n)
  \/ \E body \in ListingBodies, resps \in [1..DefaultRetries -> ScanOutcomeKinds] :
       ListPage(body, resps)
  \/ \E body \in ItemBodies, resps \in [1..DefaultRetries -> ScanOutcomeKinds] :
       CheckTopic(body, resps)
  \/ \E response \in Responses, store_ok \in BOOLEAN :
       ProcessFetched(response, store_ok)
  \/ Pace
  \/ FinishScan

Spec == Init /\ [][Next]_vars

\* ------------------------------------------------------------------------
\* Scans together with forced re-processing: save_project called directly,
\* between two scans, with any project the pipeline can build
\* ------------------------------------------------------------------------
Range(f) == {f[x] : x \in DOMAIN f}

ForcedProjects == {b.project : b \in {c \in Range(Built) : ~c.raised}}

ForcedSave(project, store_ok) ==
  /\ pc = "idle"
  /\ forced < MaxForced
  /\ SaveProject(Dated(project, now, now), now, store_ok, FALSE)
  /\ forced' = forced + 1
  /\ UNCHANGED <<scanVars, callVars, now>>

NextForced ==
  \/ Next
  \/ \E project \in ForcedProjects, store_ok \in BOOLEAN :
       ForcedSave(project, store_ok)

SpecForced == Init /\ [][NextForced]_vars

\* ------------------------------------------------------------------------
\* Scans in which the dedup lookup can fail: is_project_analyzed has no
\* try/except and the loop of scan_bitcointalk_section catches nothing, so
\* a sqlite3 error raised at line 417 leaves the scan through the finally of
\* lines 423-424.  Every step of a running scan is an await that returns or
\* raises (the requests have a timeout, line 139), which is what the
\* fairness of the scan steps states; starting a scan is up to the caller.
\* The processing of a fetched page is enabled exactly when pc = "fetched"
\* and always leaves that position, so its weak fairness is the formula
\* []<>(pc # "fetched").
\* ------------------------------------------------------------------------
\* the exception leaves the scan and the session stays open
DedupRaisesLeak ==
  /\ pc = "scan"
  /\ topic_links # <<>>
  /\ step' = Step("raise", Head(topic_links), 0, FALSE, FALSE)
  /\ topic_links' = <<>>
  /\ pc' = "idle"
  /\ UNCHANGED <<session, scans, pages, page, cur, html, storeVars, callVars,
                 now, forced>>

DedupRaises ==
  /\ pc = "scan"
  /\ topic_links # <<>>
  /\ step' = Step("raise", Head(topic_links), 0, FALSE, FALSE)
  /\ topic_links' = <<>>
  /\ session' = "closed"
  /\ pc' = "idle"
  /\ UNCHANGED <<scans, pages, page, cur, html, storeVars, callVars, now,
                 forced>>

ScanStep ==
  \/ \E body \in ListingBodies, resps \in [1..DefaultRetries -> ScanOutcomeKinds] :
       ListPage(body, resps)
  \/ \E body \in ItemBodies, resps \in [1..DefaultRetries -> ScanOutcomeKinds] :
       CheckTopic(body, resps)
  \/ Pace
  \/ FinishScan
  \/ DedupRaises

NextLive ==
  \/ \E n \in 0..MaxPages : StartScan(n)
  \/ ScanStep
  \/ \E response \in Responses, store_ok \in BOOLEAN :
       ProcessFetched(response, store_ok)

SpecLive ==
  Init /\ [][NextLive]_vars /\ WF_vars(ScanStep) /\ []<>(pc # "fetched")

\* C20: a scan always terminates.  While it runs, the step taken when no
\* topic of the current page is left and a page remains is the request of
\* that page, in one fetch call, and the page counter goes up by one, so
\* the pages are requested once each in increasing order; a listing page
\* whose fetch is unavailable yields no topic, so the next page is what is
\* requested after it; the scan ends only by the end of the loop or by an
\* escaping exception, the session is closed whenever no scan runs, and
\* every running scan eventually ends with the session closed.
C20_ScanSteps ==
  /\ (pc = "scan" /\ topic_links = <<>> /\ page < pages)
       => /\ step'.kind = "list"
          /\ step'.id = page
          /\ page' = page + 1
          /\ pc' = "scan"
          /\ step'.unavailable => topic_links' = <<>>
  /\ page' # page => step'.kind \in {"list", "start"}
  /\ step'.kind = "list" => step'.id = page /\ page' = page + 1
  /\ (pc # "idle" /\ pc' = "idle")
       => /\ session' = "closed"
          /\ step'.kind \in {"done", "raise"}
          /\ step'.kind = "done" => page = pages /\ topic_links = <<>>

C20_ScanTerminates ==
  /\ [][C20_ScanSteps]_vars
  /\ [](session = "open" <=> pc # "idle")
  /\ (pc # "idle") ~> (pc = "idle" /\ session = "closed" /\ page <= pages)

\* the dedup lookup of a topic of the second page has failed: the scan is
\* over and the session is closed
C20_Witness ==
  /\ step.kind = "raise"
  /\ page = 2
  /\ pc = "idle"
  /\ session = "closed"

\* ------------------------------------------------------------------------
\* Properties of the store and of the scan
\* ------------------------------------------------------------------------
RowsOf(topic_id) == {r \in projects : r.topic_id = topic_id}

\* C2: every stored item has is_promising true exactly when its stored
\* final_score is at least 75 (checked under SpecForced: scans and direct
\* save_project calls).
C2_PromisingIffScore ==
  \A r \in projects : r.is_promising <=> r.final_score >= 75

\* the store holds an item at the threshold and an item just below it
C2_Witness ==
  /\ \E r \in projects : r.final_score = 75 /\ r.is_promising
  /\ \E r \in projects : r.final_score = 74 /\ ~r.is_promising

\* the stored item of the end-to-end scenario: the post text of the
\* scenario and the classification 80/70/60, not a fork, premine 3%
IsE2ERow(r) ==
  /\ r.content = BODY_E2E
  /\ r.innovation_score = 80
  /\ r.technical_score = 70
  /\ r.disruptiveness_score = 60
  /\ r.is_fork = FALSE
  /\ r.premine_percentage = [neg |-> FALSE, num |-> 3, den |-> 1]

URL_WP == SubSeq(BODY_E2E, 22, 48)

\* C5 as stated: the scenario finds a whitepaper link and a github link
\* and stores final_score 84 with is_promising true.
C5_ScenarioAsStated ==
  \A r \in projects :
    IsE2ERow(r) =>
      /\ r.whitepaper_link # <<>>
      /\ r.github_link # <<>>
      /\ r.final_score = 84
      /\ r.is_promising

\* C5 amended: the scenario finds neither a whitepaper link nor a github
\* link (the one URL extracted, "https://example.org/wp.pdf,", is a website
\* link), adds 10 for not being a fork and no premine penalty, and stores
\* final_score 74 with is_promising false.
C5_Scenario ==
  \A r \in projects :
    IsE2ERow(r) =>
      /\ r.whitepaper_link = <<>>
      /\ r.github_link = <<>>
      /\ r.website_link = URL_WP
      /\ r.final_score = 74
      /\ ~r.is_promising

\* a scan has processed the scenario and stored its item
C5_Witness ==
  /\ step.kind = "process"
  /\ step.saved
  /\ \E r \in projects : r.topic_id = step.id /\ IsE2ERow(r)

\* C6: a topic whose id is in the store at its dedup check is skipped: no
\* request for its page, no classification call and no upsert, and the
\* scan goes on with the next topic.
C6_KnownTopicSkipped ==
  [][ (pc = "scan" /\ topic_links # <<>> /\ RowsOf(Head(topic_links)) # {})
      => /\ step'.kind = "skip"
         /\ step'.id = Head(topic_links)
         /\ ~step'.fetched
         /\ ~step'.classified
         /\ ~step'.saved
         /\ pc' = "scan"
         /\ topic_links' = Tail(topic_links)
         /\ UNCHANGED <<html, storeVars>> ]_vars

\* a topic has just been skipped
C6_Witness == step.kind = "skip" /\ RowsOf(step.id) # {}

\* the row holds the fields of the project, the lists as JSON text
RowHolds(r, project) ==
  /\ r.topic_id = project.topic_id
  /\ r.title = project.title
  /\ r.author = project.author
  /\ r.post_date = project.post_date
  /\ r.content = project.content
  /\ r.technical_score = project.technical_score
  /\ r.innovation_score = project.innovation_score
  /\ r.disruptiveness_score = project.disruptiveness_score
  /\ r.credibility_score = project.credibility_score
  /\ r.risk_score = project.risk_score
  /\ r.premine_percentage = project.premine_percentage
  /\ r.is_fork = project.is_fork
  /\ r.fork_base = project.fork_base
  /\ r.mining_algorithm = project.mining_algorithm
  /\ r.consensus_mechanism = project.consensus_mechanism
  /\ r.unique_features = json_dumps(project.unique_features)
  /\ r.red_flags = json_dumps(project.red_flags)
  /\ r.strengths = json_dumps(project.strengths)
  /\ r.final_score = project.final_score
  /\ r.github_link = project.github_link
  /\ r.whitepaper_link = project.whitepaper_link
  /\ r.website_link = project.website_link
  /\ r.analysis_date = project.analysis_date

\* C7: after any sequence of save_project calls the store holds at most
\* one row per topic_id, and that row holds, field for field, the project
\* of the last successful call for that topic_id.
C7_OneRowOfLastUpsert ==
  \A t \in TopicIds :
    /\ Cardinality(RowsOf(t)) <= 1
    /\ (lastUpsert[t].k = "none") <=> (RowsOf(t) = {})
    /\ \A r \in RowsOf(t) : RowHolds(r, lastUpsert[t])

\* a row has been overwritten: two saves went to the topic of the only row
C7_Witness ==
  /\ Cardinality(projects) = 1
  /\ \E r \in projects : r.id >= 2

\* C8: under scans a stored row is never changed or removed (its
\* last_updated included), and every topic_id is upserted at most once.
C8_StoredRowsStay ==
  [][ /\ \A r \in projects : r \in projects'
      /\ \A t \in TopicIds : upserts'[t] <= 1 ]_vars

\* a later scan meets a topic stored by an earlier scan, after time passed
C8_Witness ==
  /\ scans >= 2
  /\ step.kind = "skip"
  /\ \E r \in RowsOf(step.id) : r.last_updated < now

\* the item just handled failed: its page was unavailable, or it was
\* fetched and nothing was saved
ItemFailed ==
  \/ step.kind = "fetch" /\ pc = "pace"
  \/ step.kind = "process" /\ ~step.saved

\* C13: whatever happens to an item, the scan goes on.  A topic taken from
\* the list is dedup-checked and, when not in the store, fetched; after the
\* fetch and after the processing, failed or not, the remaining topics and
\* pages are kept and the loop goes through the pacing back to the next
\* topic; the next page is requested when the topics are used up; the scan
\* ends only when no topic and no page is left.
C13_FailureKeepsScanning ==
  [][ /\ (pc = "scan" /\ topic_links # <<>>) =>
           /\ step'.id = Head(topic_links)
           /\ step'.kind = IF RowsOf(Head(topic_links)) # {} THEN "skip"
                           ELSE "fetch"
           /\ topic_links' = Tail(topic_links)
           /\ pc' \in {"scan", "fetched", "pace"}
           /\ UNCHANGED <<session, page, pages>>
      /\ pc = "fetched" =>
           /\ step'.kind = "process"
           /\ pc' = "pace"
           /\ UNCHANGED <<session, page, pages, topic_links>>
      /\ pc = "pace" =>
           /\ pc' = "scan"
           /\ UNCHANGED <<session, page, pages, topic_links>>
      /\ (pc = "scan" /\ topic_links = <<>> /\ page < pages) =>
           /\ step'.kind = "list"
           /\ page' = page + 1
           /\ pc' = "scan"
           /\ UNCHANGED <<session, pages>>
      /\ (session = "open" /\ session' # "open") =>
           pc = "scan" /\ topic_links = <<>> /\ page = pages ]_vars

\* an item has failed while topics of the page and pages are left
C13_Witness ==
  /\ ItemFailed
  /\ step.kind = "process"
  /\ step.classified
  /\ topic_links # <<>>
  /\ page < pages

\* C14: an item whose page is unavailable or whose save fails leaves both
\* tables as they were and its topic out of the store, and a scan that meets
\* a topic that is not in the store fetches it.
C14_NoPartialPersistence ==
  [][ /\ ( \/ step'.kind = "fetch" /\ pc' = "pace"
           \/ step'.kind = "process" /\ ~step'.saved ) =>
           /\ projects' = projects
           /\ analysis_history' = analysis_history
           /\ \A r \in projects' : r.topic_id # step'.id
      /\ (pc = "scan" /\ topic_links # <<>>
          /\ \A r \in projects : r.topic_id # Head(topic_links)) =>
           step'.kind = "fetch" /\ step'.fetched ]_vars

\* in a later scan, a save has failed while the store holds another topic
C14_Witness ==
  /\ scans >= 2
  /\ step.kind = "process"
  /\ step.classified
  /\ ~step.saved
  /\ projects # {}
  /\ RowsOf(step.id) = {}

\* the classification call failed: ollama.chat raised, the text held no
\* JSON object, or json.loads raised
FailedAnswers == {"exception", "nojson", "badjson"}

Indicator(b) == IF b THEN 1 ELSE 0

\* C15: an item whose classification call failed is still scored and
\* saved, unless the store refuses the save; its row has the three scores
\* 0, is_fork false, premine 0 and the final score 10 + 5 for a whitepaper
\* link + 5 for a github link, within 0..100.
C15_FailedClassificationScored ==
  (step.kind = "process" /\ step.answer \in FailedAnswers) =>
    /\ step.saved <=> ~step.store_failed
    /\ step.saved =>
         /\ Cardinality(RowsOf(step.id)) = 1
         /\ \A r \in RowsOf(step.id) :
              /\ r.technical_score = 0
              /\ r.innovation_score = 0
              /\ r.disruptiveness_score = 0
              /\ r.is_fork = FALSE
              /\ r.premine_percentage.num = 0
              /\ r.final_score = 10 + 5 * Indicator(r.whitepaper_link # <<>>)
                                    + 5 * Indicator(r.github_link # <<>>)
              /\ r.final_score \in 0..100

\* an item with a github and a whitepaper link was saved after json.loads
\* raised
C15_Witness ==
  /\ step.kind = "process"
  /\ step.answer = "badjson"
  /\ step.saved
  /\ \E r \in RowsOf(step.id) : r.final_score = 20 /\ r.github_link # <<>>

\* the scoring function on the stored inputs of a row: its three scores,
\* its is_fork and its premine percentage, with a whitepaper and a github
\* link counted as found when the stored link is not empty
RowScore(r) ==
  ScoreWith([innovation_score |-> r.innovation_score,
             technical_score |-> r.technical_score,
             disruptiveness_score |-> r.disruptiveness_score,
             is_fork |-> r.is_fork],
            r.whitepaper_link # <<>>, r.github_link # <<>>,
            PenaltyOf([ok |-> TRUE, neg |-> r.premine_percentage.neg,
                       num |-> r.premine_percentage.num,
                       den |-> r.premine_percentage.den])).final

\* C18: the final score of every stored row is the scoring function of the
\* row's own stored inputs, and the three scores and the final score of the
\* row are within 0..100.
C18_ScoreOfStoredInputs ==
  \A r \in projects :
    /\ r.final_score = RowScore(r)
    /\ r.innovation_score \in 0..100
    /\ r.technical_score \in 0..100
    /\ r.disruptiveness_score \in 0..100
    /\ r.final_score \in 0..100

\* the store holds a row whose scores were clamped and truncated, scored
\* with a malus, and a row of the other page
C18_Witness ==
  /\ \E r \in projects :
       /\ r.innovation_score = 100
       /\ r.technical_score = 100
       /\ r.disruptiveness_score = 20
       /\ FloatGreater(r.premine_percentage, 5)
       /\ r.final_score = 75
  /\ \E r \in projects : r.github_link # <<>>

\* the last action handled an item that was not skipped, and is done
\* with it
ItemDone ==
  \/ step.kind = "process"
  \/ step.kind = "fetch" /\ pc # "fetched"

\* C19: an item that was not skipped is followed, whether it failed or
\* not, by one pacing delay of 1 second, and only then the scan goes on; a
\* pacing delay comes after such an item only, so none follows a skipped
\* topic; a fetch of an item page is therefore never followed by another
\* without a pacing delay in between.
C19_PacedAfterProcessed ==
  [][ /\ ItemDone => (step'.kind = "pace" /\ now' = now + 1 /\ pc' = "scan")
      /\ (step.kind = "fetch" /\ pc = "fetched") => step'.kind = "process"
      /\ step'.kind = "pace" => ItemDone
      /\ step'.kind = "skip" => now' = now
      /\ step.kind = "skip" => step'.kind # "pace"
      /\ step'.kind = "fetch" => step.kind \in {"list", "skip", "pace"} ]_vars

\* the pacing delay after an item that failed, with topics left on the
\* page
C19_Witness ==
  /\ step.kind = "pace"
  /\ RowsOf(step.id) = {}
  /\ topic_links # <<>>
  /\ now >= 1

\* C9: after a completed ProcessItem the history holds an entry with the
\* score for every id of the items table.
C9_HistoryForEveryItem ==
  \A r \in projects :
    \E k \in 1..Len(analysis_history) :
      /\ analysis_history[k].topic_id = r.topic_id
      /\ analysis_history[k].score = r.final_score

\* ------------------------------------------------------------------------
\* The scorer on its own: calculate_final_score applied to classification
\* results drawn from a bounded set
\* ------------------------------------------------------------------------
Opt(S) == {[has |-> FALSE]} \cup {[has |-> TRUE, v |-> x] : x \in S}

ScoreVals == {0, 1, 2, 18, 80, 100}

PremineStrings ==
  {PCT0, PCT3, PCT5_0, PCT5_1, PCT10_0, PCT10_1,
   PCT20_0, PCT20_1, PCT25, PCT_TILDE3, PCT_NA}

PremineValues == {Str(s) : s \in PremineStrings} \cup {Num(15), Null}

MkAnalysis(i, t, d, f, p) ==
  LET present == {k \in {"innovation_score"} : i.has}
                 \cup {k \in {"technical_score"} : t.has}
                 \cup {k \in {"disruptiveness_score"} : d.has}
                 \cup {k \in {"is_fork"} : f.has}
                 \cup {k \in {"premine_analysis"} : p.has}
  IN [k \in present |->
        CASE k = "innovation_score" -> i.v
          [] k = "technical_score" -> t.v
          [] k = "disruptiveness_score" -> d.v
          [] k = "is_fork" -> f.v
          [] k = "premine_analysis" -> p.v]

ScoreCall(analysis, has_whitepaper, has_github) ==
  /\ s_in' = [called |-> TRUE, analysis |-> analysis,
              has_whitepaper |-> has_whitepaper, has_github |-> has_github]
  /\ s_out' = [called |-> TRUE,
               r |-> calculate_final_score(analysis, has_whitepaper, has_github)]
  /\ UNCHANGED <<scanVars, storeVars, fetchVars, classVars, linkVars, now,
                 forced>>

NextScore ==
  /\ ~s_in.called
  /\ \E i, t, d \in Opt(ScoreVals), f \in Opt(BOOLEAN), p \in Opt(PremineValues),
        has_whitepaper, has_github \in BOOLEAN :
       ScoreCall(MkAnalysis(i, t, d, f, p), has_whitepaper, has_github)

SpecScore == Init /\ [][NextScore]_vars

\* ------------------------------------------------------------------------
\* The fetcher on its own: fetch_with_retry called with any retry count up
\* to MaxFetchRetries against any sequence of attempt outcomes
\* ------------------------------------------------------------------------
FetchCall(retries, resps) ==
  /\ f_in' = [called |-> TRUE, retries |-> retries, resps |-> resps]
  /\ f_out' = [called |-> TRUE, r |-> fetch_with_retry(resps, SOME_PAGE, retries)]
  /\ UNCHANGED <<scanVars, storeVars, scoreVars, classVars, linkVars, now,
                 forced>>

NextFetch ==
  /\ ~f_in.called
  /\ \E retries \in 0..MaxFetchRetries :
       \E resps \in [1..retries -> OutcomeKinds] : FetchCall(retries, resps)

SpecFetch == Init /\ [][NextFetch]_vars

\* ------------------------------------------------------------------------
\* Properties of the fetcher (checked under SpecFetch)
\* ------------------------------------------------------------------------
\* attempts of the call that answered with status 200
Answered200 == {k \in 1..f_in.retries : f_in.resps[k] \in {"ok", "bodyfail"}}

\* attempts that answered 200 and whose body was read
Delivered200 == {k \in 1..f_in.retries : f_in.resps[k] = "ok"}

FirstOf(S) == CHOOSE k \in S : \A j \in S : k <= j

\* C10 as stated: at most maxRetries requests, the content is returned at
\* the first attempt that answers 200 with no request after it, and
\* Unavailable is returned when no attempt answers 200.
C10_FirstAnswer200 ==
  f_out.called =>
    /\ Requests(f_out.r.trace) <= f_in.retries
    /\ Answered200 # {} =>
         /\ f_out.r.result = Html(SOME_PAGE)
         /\ Requests(f_out.r.trace) = FirstOf(Answered200)
    /\ Answered200 = {} => f_out.r.result = NoHtml

\* C10 amended: at most maxRetries requests; the content is returned at the
\* first attempt that answers 200 and whose body is read, with no request
\* after it; Unavailable is returned when no attempt does.
C10_FirstDelivered200 ==
  f_out.called =>
    /\ Requests(f_out.r.trace) <= f_in.retries
    /\ Delivered200 # {} =>
         /\ f_out.r.result = Html(SOME_PAGE)
         /\ Requests(f_out.r.trace) = FirstOf(Delivered200)
    /\ Delivered200 = {} => f_out.r.result = NoHtml

\* a call that got its content at the last allowed attempt, after a 429, an
\* unread 200 body and another failure
C10_Witness ==
  /\ f_out.called
  /\ f_in.retries = MaxFetchRetries
  /\ f_in.resps[1] = "s429"
  /\ f_in.resps[2] = "bodyfail"
  /\ FirstOf(Delivered200 \cup {f_in.retries + 1}) = f_in.retries
  /\ f_out.r.result = Html(SOME_PAGE)
  /\ Requests(f_out.r.trace) = f_in.retries

\* position in the trace of the k-th request (k from 1)
GetPos(trace, k) ==
  CHOOSE i \in 1..Len(trace) :
    /\ trace[i] = EvGet
    /\ Cardinality({j \in 1..i : trace[j] = EvGet}) = k

\* what happens after the k-th request and before the next one, or before
\* the return when there is none
AfterRequest(trace, k) ==
  SubSeq(trace, GetPos(trace, k) + 1,
         IF k < Requests(trace) THEN GetPos(trace, k + 1) - 1 ELSE Len(trace))

S429_THEN_200 == <<"s429", "s429", "s429", "ok">>

\* C11: a 429 received at the k-th attempt (k from 0) is followed by one
\* wait of 2^k seconds; with maxRetries = 4, three 429 answers and then a
\* 200 give the content after exactly the waits 1, 2 and 4, in that order.
C11_Backoff429 ==
  f_out.called =>
    /\ \A k \in 1..Requests(f_out.r.trace) :
         f_in.resps[k] = "s429" =>
           AfterRequest(f_out.r.trace, k) = <<EvSleep(Pow2(k - 1))>>
    /\ (f_in.retries = 4 /\ f_in.resps = S429_THEN_200) =>
         /\ f_out.r.result = Html(SOME_PAGE)
         /\ f_out.r.trace = <<EvGet, EvSleep(1), EvGet, EvSleep(2),
                              EvGet, EvSleep(4), EvGet>>

\* the call of the scenario has returned
C11_Witness ==
  /\ f_out.called
  /\ f_in.retries = 4
  /\ f_in.resps = S429_THEN_200
  /\ Slept(f_out.r.trace) = 7

\* C12: every failed attempt that is not a 429, a transport failure and
\* equally a status other than 200 and 429, is followed by one wait of
\* 1 second.
C12_FixedWaitAfterFailure ==
  f_out.called =>
    \A k \in 1..Requests(f_out.r.trace) :
      f_in.resps[k] \in {"exc", "status"} =>
        AfterRequest(f_out.r.trace, k) = <<EvSleep(1)>>

\* the requests of the call that received an answer of one of the kinds
Received(kinds) ==
  {k \in 1..Requests(f_out.r.trace) : f_in.resps[k] \in kinds}

Sleeps(trace) == Cardinality({i \in 1..Len(trace) : trace[i].e = "sleep"})

\* n requests, each followed by its wait: 1, 2, ..., 2^(n-1)
AllBackoffTrace(n) ==
  [i \in 1..(2 * n) |->
     IF i % 2 = 1 THEN EvGet ELSE EvSleep(Pow2((i \div 2) - 1))]

\* C21: the call waits once per 429 received, also for a 429 received at the
\* last allowed attempt: the waits of a call are those of its 429 answers
\* and of its transport failures, each 429 is followed by its own wait, and
\* a call whose n attempts all answer 429 makes exactly n requests and the n
\* waits 1, 2, ..., 2^(n-1), 2^n - 1 seconds in all, the last wait coming
\* after the last request and before the return of None.
C21_WaitPer429 ==
  f_out.called =>
    /\ Sleeps(f_out.r.trace) =
         Cardinality(Received({"s429"}))
           + Cardinality(Received({"exc", "bodyfail"}))
    /\ Cardinality({k \in Received({"s429"}) :
                       AfterRequest(f_out.r.trace, k) = <<EvSleep(Pow2(k - 1))>>})
         = Cardinality(Received({"s429"}))
    /\ (\A k \in 1..f_in.retries : f_in.resps[k] = "s429") =>
         /\ Requests(f_out.r.trace) = f_in.retries
         /\ Sleeps(f_out.r.trace) = f_in.retries
         /\ f_out.r.trace = AllBackoffTrace(f_in.retries)
         /\ Slept(f_out.r.trace) = Pow2(f_in.retries) - 1
         /\ f_out.r.result = NoHtml

\* every allowed attempt of the call answered 429 and the call has returned
\* after its last wait
C21_Witness ==
  /\ f_out.called
  /\ f_in.retries = MaxFetchRetries
  /\ \A k \in 1..f_in.retries : f_in.resps[k] = "s429"
  /\ f_out.r.result = NoHtml
  /\ f_out.r.trace[Len(f_out.r.trace)] = EvSleep(Pow2(MaxFetchRetries - 1))

\* ------------------------------------------------------------------------
\* The classification on its own: analyze_technical_depth against any
\* answer of the service, a failed call or a JSON object whose scores are
\* absent, in or out of range, fractional, textual or null
\* ------------------------------------------------------------------------
ScoreJsonVals ==
  {Num(-5), Num(0), Num(100), Num(150), Flt(857, 10), Str(STR_100),
   Str(STR_HIGH), Null}

ClassifyCall(response) ==
  /\ c_in' = [called |-> TRUE, response |-> response]
  /\ c_out' = [called |-> TRUE, r |-> analyze_technical_depth(response)]
  /\ UNCHANGED <<scanVars, storeVars, scoreVars, fetchVars, linkVars, now,
                 forced>>

NextClassify ==
  /\ ~c_in.called
  /\ \/ \E k \in FailedAnswers : ClassifyCall([k |-> k])
     \/ \E i, t, d \in Opt(ScoreJsonVals), f \in Opt(BOOLEAN) :
          ClassifyCall([k |-> "json",
                        obj |-> MkAnalysis(i, t, d, f,
                                           [has |-> TRUE, v |-> Str(PCT3)])])

SpecClassify == Init /\ [][NextClassify]_vars

\* C16: for an answer that holds a JSON object the classification is not
\* rejected: it has the fields of the object, the three scores within
\* 0..100 and the other fields as they were.
C16_ScoresCoerced ==
  (c_out.called /\ c_in.response.k = "json") =>
    /\ DOMAIN c_out.r = DOMAIN c_in.response.obj
    /\ \A key \in ScoreKeys \cap DOMAIN c_in.response.obj :
         c_out.r[key] \in 0..100
    /\ \A key \in DOMAIN c_in.response.obj \ ScoreKeys :
         c_out.r[key] = c_in.response.obj[key]

\* ------------------------------------------------------------------------
\* The link extraction on its own: extract_links against any text made of
\* up to MaxUrls of the words below, separated by blanks
\* ------------------------------------------------------------------------
\* a github repository whose path holds the whitepaper keyword
URL_GITHUB_WP ==
  <<"h","t","t","p","s",":","/","/","g","i","t","h","u","b",".","c","o","m",
    "/","a","/","w","h","i","t","e","p","a","p","e","r">>

\* a github repository without scheme, in capitals
URL_WWW_GITHUB ==
  <<"w","w","w",".","G","i","t","H","u","b",".","c","o","m","/","a","/","b">>

\* a paper on a website
URL_PAPER ==
  <<"h","t","t","p",":","/","/","x",".","i","o","/","L","i","t","e","P","a",
    "p","e","r",".","p","d","f">>

\* a paper without scheme
URL_WWW_PAPER ==
  <<"w","w","w",".","x",".","i","o","/","w","h","i","t","e","p","a","p","e",
    "r">>

\* a website
URL_SITE ==
  <<"h","t","t","p","s",":","/","/","x",".","i","o","/","a">>

\* no scheme: the website pattern does not match
URL_WWW ==
  <<"w","w","w",".","x",".","i","o">>

\* not a URL
WORD_PAPER ==
  <<"w","h","i","t","e","p","a","p","e","r">>

Words ==
  {URL_GITHUB_WP, URL_WWW_GITHUB, URL_PAPER, URL_WWW_PAPER, URL_SITE, URL_WWW,
   WORD_PAPER}

RECURSIVE JoinWords(_)
JoinWords(words) ==
  IF words = <<>> THEN <<>>
  ELSE IF Len(words) = 1 THEN words[1]
  ELSE words[1] \o <<" ">> \o JoinWords(Tail(words))

LinksCall(words) ==
  /\ l_in' = [called |-> TRUE, words |-> words, text |-> JoinWords(words)]
  /\ l_out' = [called |-> TRUE, r |-> extract_links(JoinWords(words))]
  /\ UNCHANGED <<scanVars, storeVars, scoreVars, fetchVars, classVars, now,
                 forced>>

NextLinks ==
  /\ ~l_in.called
  /\ \E words \in SeqsUpTo(Words, MaxUrls) : LinksCall(words)

SpecLinks == Init /\ [][NextLinks]_vars

\* the category the precedence github, whitepaper, website, other gives
\* to each word; "none" for the word that is no URL
StatedCategory(w) ==
  CASE w \in {URL_GITHUB_WP, URL_WWW_GITHUB} -> "github"
    [] w \in {URL_PAPER, URL_WWW_PAPER} -> "whitepaper"
    [] w = URL_SITE -> "website"
    [] w = URL_WWW -> "other"
    [] OTHER -> "none"

\* C17: every URL of the text is in exactly one list, the one of the first
\* category it matches in the order github, whitepaper, website, other, and
\* each list keeps the order of the text.
C17_FirstMatchPrecedence ==
  l_out.called =>
    /\ DOMAIN l_out.r = {"github", "whitepaper", "website", "other"}
    /\ \A c \in DOMAIN l_out.r :
         l_out.r[c] = SelectSeq(l_in.words, LAMBDA w : StatedCategory(w) = c)

\* a text with a paper, a github repository named after a paper and a
\* website has been classified
C17_Witness ==
  /\ l_out.called
  /\ l_in.words = <<URL_PAPER, URL_GITHUB_WP, URL_SITE>>
  /\ l_out.r["github"] = <<URL_GITHUB_WP>>
  /\ l_out.r["whitepaper"] = <<URL_PAPER>>

\* ------------------------------------------------------------------------
\* Properties of the scorer (checked under SpecScore)
\* ------------------------------------------------------------------------
ScoreArg(key, default) == Get(s_in.analysis, key, default)

ArgPremine == ScoreArg("premine_analysis", Str(PCT0))

\* the premine argument is a percentage string that float() accepts
ArgPremineParsed ==
  /\ ArgPremine.k = "str"
  /\ Contains(ArgPremine.s, "%")
  /\ ParseFloat(Remove(ArgPremine.s, "%")).ok

ArgPremineFloat == ParseFloat(Remove(ArgPremine.s, "%"))

\* the premine argument is exactly tenths/10 percent
ArgPremineIs(tenths) ==
  /\ ArgPremineParsed
  /\ ~ArgPremineFloat.neg
  /\ 10 * ArgPremineFloat.num = tenths * ArgPremineFloat.den

\* the penalty as the specification tabulates it
SpecPenalty ==
  IF FloatGreater(ArgPremineFloat, 20) THEN -25
  ELSE IF FloatGreater(ArgPremineFloat, 10) THEN -15
  ELSE IF FloatGreater(ArgPremineFloat, 5) THEN -5
  ELSE 0

\* 100 * (base + adjustment + penalty) in exact integer arithmetic
ExactHundredths ==
  35 * ScoreArg("innovation_score", 0) + 30 * ScoreArg("technical_score", 0)
  + 25 * ScoreArg("disruptiveness_score", 0)
  + 100 * ( (IF s_in.has_whitepaper THEN 5 ELSE 0)
          + (IF s_in.has_github THEN 5 ELSE 0)
          + (IF ~ScoreArg("is_fork", FALSE) THEN 10 ELSE 0)
          + SpecPenalty )

Clamp(n) == Max(0, Min(100, n))

\* C1: for every classification result and every combination of the two
\* link flags calculate_final_score returns an integer in [0,100].
C1_ScoreInRange ==
  s_out.called => (s_out.r.ok /\ s_out.r.final \in 0..100)

\* C3 as stated: the result is clamp(round(base + adjustment + penalty)),
\* round being rounding to the nearest integer.
C3_RoundedToNearest ==
  (s_out.called /\ ArgPremineParsed) =>
    \E n \in -30..120 :
      /\ 2 * (100 * n - ExactHundredths) <= 100
      /\ 2 * (ExactHundredths - 100 * n) <= 100
      /\ s_out.r.final = Clamp(n)

\* C3 amended: the result is clamp(int(x)), int truncating the double x
\* toward zero: it is the clamped floor of the exact value v, except that
\* for a whole v the double sum may lie just below v and the result is v - 1.
C3_Truncated ==
  (s_out.called /\ ArgPremineParsed) =>
    /\ s_out.r.ok
    /\ IF ExactHundredths % 100 # 0
       THEN s_out.r.final = Clamp(ExactHundredths \div 100)
       ELSE s_out.r.final \in {Clamp(ExactHundredths \div 100),
                               Clamp((ExactHundredths \div 100) - 1)}

\* a call whose exact value has a fractional part above one half and lies
\* strictly inside the range: truncation and rounding differ
C3_Witness ==
  /\ s_out.called
  /\ ArgPremineParsed
  /\ ExactHundredths % 100 > 50
  /\ ExactHundredths > 100
  /\ ExactHundredths < 9900
  /\ s_out.r.final = ExactHundredths \div 100

\* C4 as stated: premine 20.0% gives penalty 0, 20.1% gives -25, 10.0%
\* gives -15 and 5.0% gives 0.
C4_BoundariesAsStated ==
  s_out.called =>
    /\ ArgPremineIs(200) => s_out.r.penalty = 0
    /\ ArgPremineIs(201) => s_out.r.penalty = -25
    /\ ArgPremineIs(100) => s_out.r.penalty = -15
    /\ ArgPremineIs(50) => s_out.r.penalty = 0

\* C4 amended: premine 20.0% gives penalty -15, 20.1% gives -25, 10.0%
\* gives -5 and 5.0% gives 0.
C4_Boundaries ==
  s_out.called =>
    /\ ArgPremineIs(200) => s_out.r.penalty = -15
    /\ ArgPremineIs(201) => s_out.r.penalty = -25
    /\ ArgPremineIs(100) => s_out.r.penalty = -5
    /\ ArgPremineIs(50) => s_out.r.penalty = 0

\* a call with a premine of exactly 20.0%
C4_Witness == s_out.called /\ ArgPremineIs(200) /\ s_out.r.penalty = -15

====
